---- MODULE Spec2Model ----
(***************************************************************************)
(* Model of the Zoraxy blocklist import plugin (src/src/main.rs,           *)
(* src/src/errors.rs).                                                     *)
(*                                                                         *)
(* The service runs on the multi-threaded tokio runtime (#[tokio::main]),  *)
(* so request handlers and detached import jobs interleave at every        *)
(* operation on the shared importing_lock and at every .await.             *)
(***************************************************************************)
EXTENDS Integers, Sequences, FiniteSets, TLC

\* ------------------------------------------------------------------ bounds

\* Number of POST /api/import requests the environment issues.
NumReqs == 3
\* Longest raw blocklist string enumerated by the parsing specification.
MaxLen == 5

\* Number of GET /api/list-access-rules requests the environment issues.
NumListReqs == 2

\* Number of arbitrary HTTP requests the environment sends to the Router.
NumRouteReqs == 2

Reqs == 1..NumReqs
RouteReqs == 1..NumRouteReqs
ListReqs == 1..NumListReqs

\* A request that has not been received carries no form; one that has not
\* been answered has no response.
NoForm == [access_rule_id |-> "", blocklist |-> <<>>]
NoResp == [status |-> 0, body |-> <<>>]
NoReply == [kind |-> "none", status |-> 0, body |-> "none"]
NoRoute == [method |-> "", path |-> "", to |-> "", status |-> 0]

\* ------------------------------------------------------------------ text
\* A Rust String is modelled as a sequence of one-character strings.

\* Characters the parsing specification enumerates: two token characters,
\* two kinds of whitespace and the separator.
Alphabet == {"1", "2", " ", "\t", ","}

\* Every string over Alphabet of length at most MaxLen.
RawStrings == UNION {[1..n -> Alphabet] : n \in 0..MaxLen}

\* char::is_whitespace, as used by str::trim.
IsWhitespace(c) == c \in {" ", "\t", "\n", "\r"}

\* str::split(','): the pieces between separators; a string without a
\* separator (the empty one included) is a single piece.
RECURSIVE SplitFrom(_, _, _)
SplitFrom(s, i, cur) ==
    IF i > Len(s) THEN <<cur>>
    ELSE IF s[i] = "," THEN <<cur>> \o SplitFrom(s, i + 1, <<>>)
    ELSE SplitFrom(s, i + 1, Append(cur, s[i]))

Split(s) == SplitFrom(s, 1, <<>>)

\* str::trim_start / str::trim_end / str::trim.
RECURSIVE TrimStart(_)
TrimStart(s) ==
    IF s # <<>> /\ IsWhitespace(Head(s)) THEN TrimStart(Tail(s)) ELSE s

RECURSIVE TrimEnd(_)
TrimEnd(s) ==
    IF s # <<>> /\ IsWhitespace(s[Len(s)])
    THEN TrimEnd(SubSeq(s, 1, Len(s) - 1))
    ELSE s

\* Variant: only leading whitespace is removed (trim_start for trim).
TrimLeadingOnly(s) == TrimStart(s)

Trim(s) == TrimEnd(TrimStart(s))

\* .map(|s| s.trim().to_string())
MapTrim(ts) == [k \in 1..Len(ts) |-> Trim(ts[k])]

\* .filter(|s| !s.is_empty())
RECURSIVE FilterNonEmpty(_)
FilterNonEmpty(ts) ==
    IF ts = <<>> THEN <<>>
    ELSE IF Head(ts) = <<>> THEN FilterNonEmpty(Tail(ts))
    ELSE <<Head(ts)>> \o FilterNonEmpty(Tail(ts))

\* form.blocklist.split(',').map(trim).filter(non-empty).collect()
ParseBlocklist(raw) == FilterNonEmpty(MapTrim(Split(raw)))

\* ------------------------------------------------------------------ inputs

\* "10.0.0.1,10.0.0.2"
TwoIps ==
    <<"1","0",".","0",".","0",".","1",",","1","0",".","0",".","0",".","2">>

Ip10_0_0_1 == <<"1","0",".","0",".","0",".","1">>
Ip10_0_0_2 == <<"1","0",".","0",".","0",".","2">>

\* " 7.7.7.7 ,": padding around the address and an empty last token.
PaddedIp == <<" ","7",".","7",".","7",".","7"," ",",">>

Ip7_7_7_7 == <<"7",".","7",".","7",".","7">>

\* The query strings (access_rule_id, blocklist) import requests carry: the
\* two-address list, a padded single address and an empty blocklist.
ImportForms ==
    {[access_rule_id |-> "abc", blocklist |-> TwoIps],
     [access_rule_id |-> "xyz", blocklist |-> PaddedIp],
     [access_rule_id |-> "abc", blocklist |-> <<>>]}

\* What one upstream add-IP call can come back with: a 2xx response, a
\* response with a non-2xx status (reqwest's send() is Ok for both), or a
\* reqwest::Error (connection failure and the like).
Outcomes == {"ok", "status", "neterr"}

\* ------------------------------------------------------------------ state

VARIABLES
    hpc,          \* handler position of each import request
    form,         \* ImportForm of each request (access_rule_id, blocklist)
    ips,          \* the parsed Vec<String> of each request
    resp,         \* the HTTP response each request received
    permits,      \* permits left in importing_lock (tokio Mutex: 1 = unlocked)
    job,          \* state of each request's detached task
    idx,          \* number of list elements the task's loop has finished
    sent,         \* upstream add-IP calls each task has issued, in order
    results,      \* what each returned call came back with
    outstanding,  \* upstream add-IP calls issued and not yet returned
    log,          \* "Failed to import IP" warnings of each task
    listReq,      \* the GET /api/list-access-rules requests
    routed        \* requests the Router has dispatched, and where to

vars == <<hpc, form, ips, resp, permits, job, idx, sent, results,
          outstanding, log, listReq, routed>>

jobVars == <<job, idx, sent, results, outstanding, log>>
handlerVars == <<hpc, form, ips, resp>>

Init ==
    /\ hpc = [r \in Reqs |-> "idle"]
    /\ form = [r \in Reqs |-> NoForm]
    /\ ips = [r \in Reqs |-> <<>>]
    /\ resp = [r \in Reqs |-> NoResp]
    /\ permits = 1
    /\ job = [r \in Reqs |-> "none"]
    /\ idx = [r \in Reqs |-> 0]
    /\ sent = [r \in Reqs |-> <<>>]
    /\ results = [r \in Reqs |-> <<>>]
    /\ outstanding = {}
    /\ log = [r \in Reqs |-> <<>>]
    /\ listReq = [c \in ListReqs |-> 
                       [pc |-> "idle", reply |-> NoReply, resp |-> NoResp]]
    /\ routed = [c \in RouteReqs |-> NoRoute]

\* ------------------------------------------------------------------ responses

\* format!("Started import of {} IPs to Access Rule ID: {}, check logs ...")
StartedResponse(n, id) ==
    [status |-> 200,
     body |-> <<"Started import of ", n, " IPs to Access Rule ID: ", id,
                ", check logs for progress.">>]

\* Error::into_response
ErrorResponse(e) ==
    IF e = "ImportInProgress"
    THEN [status |-> 409, body |-> [error |-> "Import already in progress"]]
    ELSE [status |-> 502, body |-> [error |-> "Zoraxy API error"]]

\* ------------------------------------------------------------------ importing_lock

\* Variant: try_lock that does not look at the permits.
TryLockAlways == TRUE

\* Mutex::try_lock: takes the permit when one is left, never waits.
TryLockOk == permits > 0

\* ------------------------------------------------------------------ handle_import_post

\* The request arrives; the handler parses the blocklist and formats the
\* response it will give if the import is started.
Receive(r, f) ==
    /\ hpc[r] = "idle"
    /\ hpc' = [hpc EXCEPT ![r] = "precheck"]
    /\ form' = [form EXCEPT ![r] = f]
    /\ ips' = [ips EXCEPT ![r] = ParseBlocklist(f.blocklist)]
    /\ UNCHANGED <<resp, permits, listReq, routed>>
    /\ UNCHANGED jobVars

\* Variant: the pre-check waits for the lock (lock().await) instead of trying.
PreCheckBlocking(r) ==
    /\ hpc[r] = "precheck"
    /\ permits > 0
    /\ permits' = permits - 1
    /\ hpc' = [hpc EXCEPT ![r] = "holding"]
    /\ UNCHANGED <<form, ips, resp, listReq, routed>>
    /\ UNCHANGED jobVars

\* Variant: the busy arm of the pre-check does not return, so the handler
\* goes on to spawn the task.
PreCheckNoReturn(r) ==
    /\ hpc[r] = "precheck"
    /\ IF permits > 0
       THEN /\ permits' = permits - 1
            /\ hpc' = [hpc EXCEPT ![r] = "holding"]
       ELSE /\ hpc' = [hpc EXCEPT ![r] = "spawn"]
            /\ UNCHANGED permits
    /\ UNCHANGED <<form, ips, resp, listReq, routed>>
    /\ UNCHANGED jobVars

\* if let Err(_) = ctx.importing_lock.try_lock() { return Err(ImportInProgress) }
\* On success the guard is a temporary of the if-let.
PreCheck(r) ==
    /\ hpc[r] = "precheck"
    /\ IF TryLockOk
       THEN /\ permits' = permits - 1
            /\ hpc' = [hpc EXCEPT ![r] = "holding"]
            /\ UNCHANGED resp
       ELSE /\ hpc' = [hpc EXCEPT ![r] = "done"]
            /\ resp' = [resp EXCEPT ![r] = ErrorResponse("ImportInProgress")]
            /\ UNCHANGED permits
    /\ UNCHANGED <<form, ips, listReq, routed>>
    /\ UNCHANGED jobVars

\* The temporary guard of the pre-check is dropped at the end of the if-let.
PreCheckDrop(r) ==
    /\ hpc[r] = "holding"
    /\ permits' = permits + 1
    /\ hpc' = [hpc EXCEPT ![r] = "spawn"]
    /\ UNCHANGED <<form, ips, resp, listReq, routed>>
    /\ UNCHANGED jobVars

\* tokio::spawn(async move { ... }); Ok(response)
SpawnAndRespond(r) ==
    /\ hpc[r] = "spawn"
    /\ job' = [job EXCEPT ![r] = "pending"]
    /\ hpc' = [hpc EXCEPT ![r] = "done"]
    /\ resp' = [resp EXCEPT ![r] =
                  StartedResponse(Len(ips[r]), form[r].access_rule_id)]
    /\ UNCHANGED <<form, ips, permits, listReq, routed, idx, sent, results,
                   outstanding, log>>

\* ------------------------------------------------------------------ the detached task

\* Variant: the task relies on the handler's pre-check and enters the loop
\* without taking the lock itself.
JobTryLockUnguarded(r) ==
    /\ job[r] = "pending"
    /\ job' = [job EXCEPT ![r] = "running"]
    /\ UNCHANGED <<permits, idx, sent, results, outstanding, log, listReq, routed>>
    /\ UNCHANGED handlerVars

\* Variant: the else arm of the task's try_lock does not return, so a task
\* that finds the lock taken enters the loop all the same.
JobTryLockFallsThrough(r) ==
    /\ job[r] = "pending"
    /\ job' = [job EXCEPT ![r] = "running"]
    /\ permits' = IF permits > 0 THEN permits - 1 ELSE permits
    /\ UNCHANGED <<idx, sent, results, outstanding, log, listReq, routed>>
    /\ UNCHANGED handlerVars

\* Variant: the pattern of the task's try_lock is inverted: the task goes
\* on when the lock is taken and returns (dropping the guard) when it is free.
JobTryLockInverted(r) ==
    /\ job[r] = "pending"
    /\ job' = [job EXCEPT ![r] = IF permits > 0 THEN "rejected" ELSE "running"]
    /\ UNCHANGED <<permits, idx, sent, results, outstanding, log, listReq,
                   routed>>
    /\ UNCHANGED handlerVars

\* let Ok(import_lock) = import_lock.try_lock() else { warn!; return; };
JobTryLock(r) ==
    /\ job[r] = "pending"
    /\ IF TryLockOk
       THEN /\ permits' = permits - 1
            /\ job' = [job EXCEPT ![r] = "running"]
       ELSE /\ job' = [job EXCEPT ![r] = "rejected"]
            /\ UNCHANGED permits
    /\ UNCHANGED <<idx, sent, results, outstanding, log, listReq, routed>>
    /\ UNCHANGED handlerVars

\* Variant: the list is walked from its end (ips.iter().rev()).
IpAtReversed(list, i) == list[Len(list) - i]

\* The element ips.iter().enumerate() pairs with index i (0-based).
IpAt(list, i) == list[i + 1]

\* Variant: the calls are issued without awaiting the previous one.
JobSendParallel(r) ==
    /\ Len(sent[r]) < Len(ips[r])
    /\ job[r] \in {"running", "awaiting"}
    /\ job' = [job EXCEPT ![r] = "awaiting"]
    /\ sent' = [sent EXCEPT ![r] =
                  Append(@, [id |-> form[r].access_rule_id,
                             ip |-> ips[r][Len(sent[r]) + 1]])]
    /\ outstanding' = outstanding \cup {<<r, Len(sent[r]) + 1>>}
    /\ UNCHANGED <<idx, results, log, permits, listReq, routed>>
    /\ UNCHANGED handlerVars

\* for (i, ip) in ips.iter().enumerate(): client.post(&url).query(ip).send()
JobSend(r) ==
    /\ job[r] = "running"
    /\ idx[r] < Len(ips[r])
    /\ job' = [job EXCEPT ![r] = "awaiting"]
    /\ sent' = [sent EXCEPT ![r] =
                  Append(@, [id |-> form[r].access_rule_id,
                             ip |-> IpAt(ips[r], idx[r])])]
    /\ outstanding' = outstanding \cup {<<r, idx[r] + 1>>}
    /\ UNCHANGED <<idx, results, log, permits, listReq, routed>>
    /\ UNCHANGED handlerVars

\* The warning logged for an outcome: only Err(e) of send() reaches the
\* if-let body.
LogsFailure(outcome) == outcome = "neterr"

\* Variant: the Err arm breaks out of the loop instead of continuing.
LoopAdvanceBreak(i, n, outcome) == IF outcome = "neterr" THEN n ELSE i + 1

\* Variant: a failed call is tried again (the index is not advanced).
LoopAdvanceRetry(i, n, outcome) == IF outcome = "neterr" THEN i ELSE i + 1

\* The position of the loop over ips.iter().enumerate() after the call for
\* element i + 1 of n has returned: both the fall-through and the `continue`
\* of the Err arm go on to the next element.
LoopAdvance(i, n, outcome) == i + 1

\* Variant: the Err of send() is propagated (`?`): the task ends, its guard
\* is dropped and the error becomes the answer of the request.
JobReturnPropagates(r, outcome) ==
    /\ job[r] = "awaiting"
    /\ outstanding' = outstanding \ {<<r, idx[r] + 1>>}
    /\ results' = [results EXCEPT ![r] = Append(@, outcome)]
    /\ IF outcome = "neterr"
       THEN /\ resp' = [resp EXCEPT ![r] = ErrorResponse("ZoraxyApiError")]
            /\ job' = [job EXCEPT ![r] = "completed"]
            /\ permits' = permits + 1
            /\ UNCHANGED idx
       ELSE /\ idx' = [idx EXCEPT ![r] = @ + 1]
            /\ job' = [job EXCEPT ![r] = "running"]
            /\ UNCHANGED <<resp, permits>>
    /\ UNCHANGED <<sent, log, listReq, routed, hpc, form, ips>>

\* .send().await returns; on Err(e) warn! and continue.
JobReturn(r, outcome) ==
    /\ job[r] = "awaiting"
    /\ outstanding' = outstanding \ {<<r, idx[r] + 1>>}
    /\ results' = [results EXCEPT ![r] = Append(@, outcome)]
    /\ log' = [log EXCEPT ![r] =
                 IF LogsFailure(outcome)
                 THEN Append(@, [access_rule_id |-> form[r].access_rule_id,
                                 ip |-> IpAt(ips[r], idx[r]),
                                 error |-> outcome])
                 ELSE @]
    /\ idx' = [idx EXCEPT ![r] = LoopAdvance(@, Len(ips[r]), outcome)]
    /\ job' = [job EXCEPT ![r] = "running"]
    /\ UNCHANGED <<sent, permits, listReq, routed>>
    /\ UNCHANGED handlerVars

\* Variant: the guard is dropped inside the loop body, so the permit is
\* given back while elements are still to come.
JobReleaseEarly(r) ==
    /\ job[r] = "running"
    /\ permits' = permits + 1
    /\ job' = [job EXCEPT ![r] = "completed"]
    /\ UNCHANGED <<idx, sent, results, outstanding, log, listReq, routed>>
    /\ UNCHANGED handlerVars

\* Variant: the task ends without giving the permit back
\* (std::mem::forget(import_lock)).
JobReleaseLeak(r) ==
    /\ job[r] = "running"
    /\ idx[r] = Len(ips[r])
    /\ job' = [job EXCEPT ![r] = "completed"]
    /\ UNCHANGED <<permits, idx, sent, results, outstanding, log, listReq, routed>>
    /\ UNCHANGED handlerVars

\* drop(import_lock) after the loop.
JobRelease(r) ==
    /\ job[r] = "running"
    /\ idx[r] = Len(ips[r])
    /\ permits' = permits + 1
    /\ job' = [job EXCEPT ![r] = "completed"]
    /\ UNCHANGED <<idx, sent, results, outstanding, log, listReq, routed>>
    /\ UNCHANGED handlerVars

\* ------------------------------------------------------------------ handle_list_access_rules

\* What the upstream list call can come back with: a reqwest::Error, or a
\* response with a status and a body. The body is a JSON array of access
\* rules, a JSON error object, or something that is not JSON.
ListReplies ==
    {[kind |-> "neterr", status |-> 0, body |-> "none"]} \cup
    [kind : {"response"}, status : {200, 404, 500},
     body : {"rules", "error_object", "garbage"}]

\* response.json::<Vec<AccessRule>>(): decodes a JSON array of access rules.
DecodesAsRules(body) == body = "rules"

\* client.get(&url).bearer_auth(&api_key).send().await?, first half: the
\* call is issued and the handler awaits it.
ListSend(c) ==
    /\ listReq[c].pc = "idle"
    /\ listReq' = [listReq EXCEPT ![c].pc = "awaiting"]
    /\ UNCHANGED <<permits, routed>>
    /\ UNCHANGED handlerVars
    /\ UNCHANGED jobVars

\* The response the handler gives for what send() came back with:
\* send().await? ; response.json().await? ; Ok(Json(access_rules))
ListResponse(reply) ==
    IF reply.kind = "neterr" THEN ErrorResponse("ZoraxyApiError")
    ELSE IF DecodesAsRules(reply.body) THEN [status |-> 200, body |-> "rules"]
    ELSE ErrorResponse("ZoraxyApiError")

\* send() returns, the body is decoded and the handler answers.
ListReturn(c, reply) ==
    /\ listReq[c].pc = "awaiting"
    /\ listReq' = [listReq EXCEPT ![c] =
                     [pc |-> "done", reply |-> reply,
                      resp |-> ListResponse(reply)]]
    /\ UNCHANGED <<permits, routed>>
    /\ UNCHANGED handlerVars
    /\ UNCHANGED jobVars

\* ------------------------------------------------------------------ Router

\* HTTP methods and request paths the environment tries: the four
\* registered paths and three that are not registered.
Methods == {"GET", "HEAD", "POST", "PUT", "DELETE"}

RegisteredPaths ==
    {"/api/import", "/api/list-access-rules", "/api/list-blocklisted-ips", "/"}

Paths == RegisteredPaths \cup {"/api", "/api/import/x", "/favicon.ico"}

\* axum's MethodRouter built by get(h): GET and HEAD reach h, every other
\* method is answered 405 Method Not Allowed. post(h) takes POST only.
ViaGet(method, handler) ==
    IF method \in {"GET", "HEAD"}
    THEN [to |-> handler, status |-> 0]
    ELSE [to |-> "method_not_allowed", status |-> 405]

ViaPost(method, handler) ==
    IF method = "POST"
    THEN [to |-> handler, status |-> 0]
    ELSE [to |-> "method_not_allowed", status |-> 405]

\* not_found_handler: (StatusCode::NOT_FOUND, "Not Found")
NotFound == [to |-> "not_found_handler", status |-> 404]

\* The fallback of the Router: .fallback(get(not_found_handler))
Fallback(method) ==
    IF method \in {"GET", "HEAD"}
    THEN NotFound
    ELSE [to |-> "method_not_allowed", status |-> 405]

\* Router::new().merge(rest_api_routes()).route_service("/", ui).fallback(..)
\* A status of 0 stands for "the handler decides".
Dispatch(method, path) ==
    IF path = "/api/import" THEN ViaPost(method, "handle_import_post")
    ELSE IF path = "/api/list-access-rules"
    THEN ViaGet(method, "handle_list_access_rules")
    ELSE IF path = "/api/list-blocklisted-ips"
    THEN ViaGet(method, "handle_list_blocklisted_ips")
    ELSE IF path = "/" THEN [to |-> "ui_router", status |-> 0]
    ELSE Fallback(method)

\* A request arrives and the Router dispatches it.
Route(c, method, path) ==
    /\ routed[c] = NoRoute
    /\ routed' = [routed EXCEPT ![c] =
                    [method |-> method, path |-> path,
                     to |-> Dispatch(method, path).to,
                     status |-> Dispatch(method, path).status]]
    /\ UNCHANGED <<permits, listReq>>
    /\ UNCHANGED handlerVars
    /\ UNCHANGED jobVars

\* ------------------------------------------------------------------ specification

Next ==
    \/ \E r \in Reqs, f \in ImportForms : Receive(r, f)
    \/ \E r \in Reqs : PreCheck(r)
    \/ \E r \in Reqs : PreCheckDrop(r)
    \/ \E r \in Reqs : SpawnAndRespond(r)
    \/ \E r \in Reqs : JobTryLock(r)
    \/ \E r \in Reqs : JobSend(r)
    \/ \E r \in Reqs, o \in Outcomes : JobReturn(r, o)
    \/ \E r \in Reqs : JobRelease(r)

Spec == Init /\ [][Next]_vars

\* The runtime runs every ready task: a handler has no await between the
\* arrival of its request and its response, so each of its steps is taken.
\* Nothing makes an upstream call return.
HandlerFairness ==
    \A r \in Reqs :
        /\ WF_vars(PreCheck(r))
        /\ WF_vars(PreCheckDrop(r))
        /\ WF_vars(SpawnAndRespond(r))

SpecHandlers == Spec /\ HandlerFairness

\* A spawned task is run by the scheduler, so each of its steps is taken;
\* JobReturn is fair on the assumption that every upstream call returns.
JobFairness ==
    \A r \in Reqs :
        /\ WF_vars(JobTryLock(r))
        /\ WF_vars(JobSend(r))
        /\ WF_vars(\E o \in Outcomes : JobReturn(r, o))
        /\ WF_vars(JobRelease(r))

SpecFair == Spec /\ HandlerFairness /\ JobFairness

\* The listing endpoint on its own: it shares no state with the imports.
NextList ==
    \/ \E c \in ListReqs : ListSend(c)
    \/ \E c \in ListReqs, reply \in ListReplies : ListReturn(c, reply)

SpecList == Init /\ [][NextList]_vars

\* The Router on its own: dispatch reads and writes nothing else.
NextRoute ==
    \E c \in RouteReqs, method \in Methods, path \in Paths :
        Route(c, method, path)

SpecRoute == Init /\ [][NextRoute]_vars

\* The blocklist parsing on its own, over every raw string up to MaxLen.
NextParse ==
    \E raw \in RawStrings, id \in {"abc"} :
        Receive(1, [access_rule_id |-> id, blocklist |-> raw])

SpecParse == Init /\ [][NextParse]_vars

\* ------------------------------------------------------------------ properties

\* The task of request r holds the lock and is in its loop.
Running(r) == job[r] \in {"running", "awaiting"}

\* The task of request r has ended, by finishing its list or by finding the
\* lock taken.
JobOver(r) == job[r] \in {"completed", "rejected"}

\* Request r was answered with the "Started import ..." body.
Started(r) == resp[r].status = 200

\* The add-IP calls the list of request r asks for, in list order.
ExpectedCalls(r) ==
    [k \in 1..Len(ips[r]) |->
        [id |-> form[r].access_rule_id, ip |-> ips[r][k]]]

IsPrefix(s, t) == Len(s) <= Len(t) /\ s = SubSeq(t, 1, Len(s))

\* C1: in every reachable state at most one detached import task is Running
\* (has taken the lock and not yet released it).
C1_MutualExclusion == Cardinality({r \in Reqs : Running(r)}) <= 1

\* C1 witness: two tasks contended; one is in its loop with a call in
\* flight, the other found the lock taken.
C1_Witness ==
    \E r, q \in Reqs :
        /\ r # q
        /\ job[r] = "awaiting"
        /\ job[q] = "rejected"
        /\ Started(r) /\ Started(q)

\* C2 as stated: every request answered with the success body has its task
\* issue exactly N add-IP calls, one per list element, in list order.
C2_Original ==
    \A r \in Reqs :
        (Started(r) /\ JobOver(r)) =>
            /\ Len(sent[r]) = resp[r].body[2]
            /\ sent[r] = ExpectedCalls(r)

\* C2 amended: a request answered with the success body whose task takes the
\* lock issues exactly N add-IP calls, one per list element, in list order
\* (never anything but a prefix of them while it runs); a task that finds the
\* lock taken issues none.
C2_CallsWhenAdmitted ==
    \A r \in Reqs :
        /\ IsPrefix(sent[r], ExpectedCalls(r))
        /\ (Started(r) /\ job[r] = "completed") =>
              /\ Len(sent[r]) = resp[r].body[2]
              /\ sent[r] = ExpectedCalls(r)
              /\ form[r].blocklist = TwoIps =>
                    /\ resp[r].body[2] = 2
                    /\ [k \in 1..2 |-> sent[r][k].ip] = <<Ip10_0_0_1, Ip10_0_0_2>>
        /\ job[r] = "rejected" => sent[r] = <<>>
        /\ sent[r] # <<>> => Started(r)

\* C2 witness: the two-address request was answered "Started import of 2
\* IPs" and its task has finished after two calls, while another request
\* answered with the success body had its task rejected.
C2_Witness ==
    \E r, q \in Reqs :
        /\ r # q
        /\ form[r].blocklist = TwoIps
        /\ Started(r) /\ job[r] = "completed" /\ Len(sent[r]) = 2
        /\ Started(q) /\ job[q] = "rejected" /\ Len(ips[q]) > 0

\* C3: a request whose pre-check runs while a task is Running is answered
\* by that very step with 409 and {"error": "Import already in progress"};
\* a request answered 409 has spawned no task and caused no add-IP call.
C3_Rejected ==
    \A r \in Reqs :
        resp[r].status = 409 =>
            /\ resp[r].body = [error |-> "Import already in progress"]
            /\ hpc[r] = "done"
            /\ job[r] = "none"
            /\ sent[r] = <<>>

C3_RejectStep ==
    \A r \in Reqs :
        (/\ hpc[r] = "precheck"
         /\ hpc'[r] # "precheck"
         /\ \E q \in Reqs : Running(q)) =>
            /\ resp'[r].status = 409
            /\ hpc'[r] = "done"
            /\ UNCHANGED <<permits, job, idx, sent, results, outstanding, log>>

\* C3: both parts: the 409 state and the rejecting step.
C3_ConflictWhileRunning == []C3_Rejected /\ [][C3_RejectStep]_vars

\* C3 witness: a request has its 409 while another request's task is in its
\* loop with a call in flight.
C3_Witness ==
    \E r, q \in Reqs :
        /\ resp[r].status = 409
        /\ job[q] = "awaiting"

\* C4: a failed call (non-2xx status or network error) for element k never
\* ends the loop: the loop position is always just past the last returned
\* call, and a finished task has issued the calls for k+1..N in list order.
C4_ContinuesPastFailure ==
    \A r \in Reqs :
        \A k \in 1..Len(results[r]) :
            results[r][k] # "ok" =>
                /\ idx[r] = Len(results[r])
                /\ Running(r) \/ job[r] = "completed"
                /\ job[r] = "completed" =>
                      /\ Len(sent[r]) = Len(ips[r])
                      /\ \A j \in (k + 1)..Len(ips[r]) :
                            sent[r][j].ip = ips[r][j]

\* C4 witness: the first call of a two-element list failed with a network
\* error and the task went on to issue the second and finish.
C4_Witness ==
    \E r \in Reqs :
        /\ job[r] = "completed"
        /\ Len(ips[r]) = 2
        /\ results[r][1] = "neterr"
        /\ Len(sent[r]) = 2

\* Request r is not in flight: its handler has not started or has answered,
\* and its task, if any, has ended.
Quiescent(r) ==
    /\ hpc[r] \in {"idle", "done"}
    /\ job[r] \in {"none", "completed", "rejected"}

OthersQuiescent(r) == \A q \in Reqs \ {r} : Quiescent(q)

\* C5: the step that takes a task to Completed frees the lock, whatever the
\* calls came back with; with nothing in flight the lock is free; and a
\* request handled after a completed import with no other request in flight
\* passes the pre-check, gets the success body and has its task admitted.
C5_FreeWhenIdle == (\A r \in Reqs : Quiescent(r)) => permits = 1

C5_Step ==
    \A r \in Reqs :
        /\ (Running(r) /\ job'[r] = "completed") => permits' = 1
        /\ ((\E q \in Reqs : job[q] = "completed") /\ OthersQuiescent(r)) =>
              /\ (hpc[r] = "precheck" /\ hpc'[r] # "precheck") =>
                    hpc'[r] = "holding"
              /\ (hpc[r] = "spawn" /\ hpc'[r] # "spawn") =>
                    /\ resp'[r] = StartedResponse(Len(ips[r]),
                                                  form[r].access_rule_id)
                    /\ job'[r] = "pending"
              /\ (job[r] = "pending" /\ job'[r] # "pending") =>
                    job'[r] = "running"

\* C5: the lock is free with nothing in flight, and the steps above.
C5_GuardFreeAfterCompletion == []C5_FreeWhenIdle /\ [][C5_Step]_vars

\* C5 witness: one import has completed with a failed call, and a request
\* handled with nothing else in flight has the success body and its task in
\* the loop.
C5_Witness ==
    \E r, q \in Reqs :
        /\ r # q
        /\ job[q] = "completed"
        /\ \E k \in 1..Len(results[q]) : results[q][k] = "neterr"
        /\ OthersQuiescent(r)
        /\ Started(r)
        /\ Running(r)

\* Who holds the permit of importing_lock: a handler between its pre-check
\* and the drop of the temporary guard, or a task in its loop.
Holders ==
    {<<"handler", r>> : r \in {q \in Reqs : hpc[q] = "holding"}} \cup
    {<<"task", r>> : r \in {q \in Reqs : Running(q)}}

\* C6: the lock is either free or held by exactly one holder; an
\* acquisition attempt never waits; made while the lock is held it observes
\* Busy, made while the lock is free it obtains the permit.
C6_OneHolder ==
    /\ Cardinality(Holders) + permits = 1
    /\ \A r \in Reqs :
          /\ hpc[r] = "precheck" => ENABLED PreCheck(r)
          /\ job[r] = "pending" => ENABLED JobTryLock(r)

C6_TryStep ==
    \A r \in Reqs :
        /\ (hpc[r] = "precheck" /\ hpc'[r] # "precheck") =>
              IF Holders = {}
              THEN hpc'[r] = "holding" /\ Holders' = {<<"handler", r>>}
              ELSE hpc'[r] = "done" /\ resp'[r].status = 409
                   /\ Holders' = Holders
        /\ (job[r] = "pending" /\ job'[r] # "pending") =>
              IF Holders = {}
              THEN job'[r] = "running" /\ Holders' = {<<"task", r>>}
              ELSE job'[r] = "rejected" /\ Holders' = Holders

\* C6: one holder at most, and every attempt decided by the holding alone.
C6_TryAcquireAtomic == []C6_OneHolder /\ [][C6_TryStep]_vars

\* C6 witness: three attempts on one holding: a task is in its loop, one
\* request was refused by its pre-check and another task was refused.
C6_Witness ==
    \E r, q, p \in Reqs :
        /\ Holders = {<<"task", r>>}
        /\ resp[q].status = 409
        /\ job[p] = "rejected"

\* C7: at most one add-IP call is outstanding in the whole service; a task
\* has issued at most one call more than have returned, and the outstanding
\* call is the one after the last returned call of a task in its loop.
C7_OneOutstandingCall ==
    /\ Cardinality(outstanding) <= 1
    /\ \A r \in Reqs :
          /\ Len(sent[r]) <= Len(results[r]) + 1
          /\ job[r] = "awaiting" <=> <<r, Len(results[r]) + 1>> \in outstanding
    /\ \A c \in outstanding : Running(c[1]) /\ c[2] = Len(results[c[1]]) + 1

\* C7 witness: the second call of one task is outstanding after another
\* task has issued all its calls and finished.
C7_Witness ==
    \E r, q \in Reqs :
        /\ r # q
        /\ outstanding = {<<r, 2>>}
        /\ job[q] = "completed"
        /\ Len(sent[q]) > 0

\* C8: a handler never waits: whenever a request is being handled one of
\* its handler steps can be taken, and every received request gets its
\* response, even when no upstream call ever returns.
C8_HandlerCanStep ==
    \A r \in Reqs :
        hpc[r] \in {"precheck", "holding", "spawn"} =>
            ENABLED (PreCheck(r) \/ PreCheckDrop(r) \/ SpawnAndRespond(r))

\* C8: a handler step is always possible, and every received request is
\* answered under fairness of the handler steps alone.
C8_ResponseWithoutWaiting ==
    /\ []C8_HandlerCanStep
    /\ \A r \in Reqs : (hpc[r] = "precheck") ~> (resp[r] # NoResp)

\* C8 witness: every other request has been answered while the first call
\* of a task is outstanding and has not returned.
C8_Witness ==
    \E q \in Reqs :
        /\ job[q] = "awaiting"
        /\ results[q] = <<>>
        /\ \A r \in Reqs \ {q} : hpc[r] = "done" /\ resp[r] # NoResp
        /\ \E r \in Reqs : resp[r].status = 409

\* The comma-separated tokens of raw, described by position: a token lies
\* between two neighbouring cuts (a cut is a comma, the place before the
\* first character or the place after the last).
Cuts(raw) == {0, Len(raw) + 1} \cup {i \in 1..Len(raw) : raw[i] = ","}

NextCut(raw, a) ==
    CHOOSE b \in Cuts(raw) :
        b > a /\ \A c \in Cuts(raw) : c > a => b <= c

\* The places of the non-whitespace characters of the token after cut a.
Solid(raw, a) ==
    {i \in (a + 1)..(NextCut(raw, a) - 1) : ~IsWhitespace(raw[i])}

Least(S) == CHOOSE x \in S : \A y \in S : x <= y
Greatest(S) == CHOOSE x \in S : \A y \in S : x >= y

\* The cuts whose token is not empty once trimmed.
KeptCuts(raw) ==
    {a \in Cuts(raw) \ {Len(raw) + 1} : Solid(raw, a) # {}}

\* The k-th kept cut from the left.
KthKept(raw, k) ==
    CHOOSE a \in KeptCuts(raw) :
        Cardinality({c \in KeptCuts(raw) : c < a}) = k - 1

\* The IpList the data model asks for.
TokensOf(raw) ==
    [k \in 1..Cardinality(KeptCuts(raw)) |->
        SubSeq(raw, Least(Solid(raw, KthKept(raw, k))),
                    Greatest(Solid(raw, KthKept(raw, k))))]

\* "1.1.1.1, 2.2.2.2 ,, 3.3.3.3"
ExampleRaw ==
    <<"1",".","1",".","1",".","1",","," ","2",".","2",".","2",".","2"," ",
      ",",","," ","3",".","3",".","3",".","3">>

ExampleIps ==
    << <<"1",".","1",".","1",".","1">>,
       <<"2",".","2",".","2",".","2">>,
       <<"3",".","3",".","3",".","3">> >>

\* C9: the parsed list of a received request is exactly the comma-separated
\* tokens of its raw blocklist, trimmed, empty ones removed, in order and
\* with duplicates kept: no element is empty, starts or ends with
\* whitespace, or holds a comma.
C9_IpListIsTrimmedTokens ==
    \A r \in Reqs :
          hpc[r] # "idle" =>
              /\ ips[r] = TokensOf(form[r].blocklist)
              /\ ParseBlocklist(ExampleRaw) = ExampleIps
              /\ \A k \in 1..Len(ips[r]) :
                    /\ ips[r][k] # <<>>
                    /\ ~IsWhitespace(ips[r][k][1])
                    /\ ~IsWhitespace(ips[r][k][Len(ips[r][k])])
                    /\ \A i \in 1..Len(ips[r][k]) : ips[r][k][i] # ","

\* C9 witness: " 1,,1" was received: padding, an empty
\* token and a duplicate, parsed to ["1", "1"].
C9_Witness ==
    /\ form[1].blocklist = <<" ", "1", ",", ",", "1">>
    /\ ips[1] = << <<"1">>, <<"1">> >>

\* C10 as stated: whenever the upstream list call comes back with a non-2xx
\* status, the handler answers 502 with a JSON body that has an "error"
\* field.
C10_Non2xxGives502 ==
    \A c \in ListReqs :
        (/\ listReq[c].pc = "done"
         /\ listReq[c].reply.kind = "response"
         /\ listReq[c].reply.status \notin 200..299) =>
            /\ listReq[c].resp.status = 502
            /\ "error" \in DOMAIN listReq[c].resp.body

\* C12 as stated: a request whose path is none of the registered routes is
\* answered 404 Not Found, whatever its method.
C12_UnmatchedGives404 ==
    \A c \in RouteReqs :
        (routed[c] # NoRoute /\ routed[c].path \notin RegisteredPaths) =>
            routed[c].status = 404

\* C11: the answer to an import request depends on the request and on the
\* outcome of its pre-check only. Two answered requests with the same form
\* and the same pre-check outcome have the same status and body, whatever
\* their calls came back with; an answer never changes once given; and a
\* returning call, failed or not, changes no answer and leaves the task in
\* its loop, one element further (from where it goes on to the next element
\* or finishes).
C11_SameResponse ==
    \A r, q \in Reqs :
        (/\ hpc[r] = "done" /\ hpc[q] = "done"
         /\ form[r] = form[q]
         /\ (job[r] = "none") <=> (job[q] = "none")) =>
            resp[r] = resp[q]

C11_Step ==
    \A r \in Reqs :
        /\ resp[r] # NoResp => resp'[r] = resp[r]
        /\ results'[r] # results[r] =>
              /\ resp' = resp
              /\ hpc' = hpc
              /\ job'[r] = "running"
              /\ idx'[r] = idx[r] + 1
              /\ idx'[r] <= Len(ips[r])
              /\ permits' = permits

\* C11: both parts.
C11_ResponseIgnoresOutcomes == []C11_SameResponse /\ [][C11_Step]_vars

\* C11 witness: two requests carried the two-address list; every call of one
\* succeeded, both calls of the other failed, both tasks finished, and the two
\* answers are the same success body.
C11_Witness ==
    \E r, q \in Reqs :
        /\ r # q
        /\ form[r].blocklist = TwoIps /\ form[q] = form[r]
        /\ job[r] = "completed" /\ job[q] = "completed"
        /\ results[r] = <<"ok", "ok">>
        /\ results[q] = <<"neterr", "status">>
        /\ resp[r] = resp[q]
        /\ Started(r)

\* C13: a handler that has passed its pre-check keeps no permit, so passing
\* it admits nobody: a task whose own try_lock finds the lock taken ends
\* there, rejected for good, having issued no call and finished no element;
\* only a task that took the lock itself has ever issued a call.
C13_RejectedDoesNothing ==
    \A r \in Reqs :
        /\ hpc[r] \in {"spawn", "done"} => <<"handler", r>> \notin Holders
        /\ job[r] = "rejected" =>
              /\ sent[r] = <<>> /\ results[r] = <<>> /\ idx[r] = 0
              /\ \A c \in outstanding : c[1] # r
        /\ sent[r] # <<>> => job[r] \in {"running", "awaiting", "completed"}

C13_Step ==
    \A r \in Reqs :
        /\ (job[r] = "pending" /\ job'[r] # "pending" /\ permits = 0) =>
              /\ job'[r] = "rejected"
              /\ UNCHANGED <<permits, sent, outstanding, idx, results>>
        /\ job[r] = "rejected" => job'[r] = "rejected"
        /\ (~Running(r) /\ Running(r)') =>
              job[r] = "pending" /\ permits = 1 /\ permits' = 0

\* C13: both parts.
C13_PreCheckBestEffort == []C13_RejectedDoesNothing /\ [][C13_Step]_vars

\* C13 witness: two requests have both passed the pre-check and both have
\* the success body while neither task has tried the lock, which is free.
C13_Witness ==
    \E r, q \in Reqs :
        /\ r # q
        /\ Started(r) /\ Started(q)
        /\ job[r] = "pending" /\ job[q] = "pending"
        /\ permits = 1
        /\ \A p \in Reqs : ~Running(p)

\* The failure entries the claim asks of task r: one for each returned call
\* that failed, in order, with the access-rule id, the IP and the error.
FailuresOf(r, n) ==
    LET F[k \in 0..n] ==
            IF k = 0 THEN <<>>
            ELSE IF results[r][k] = "ok" THEN F[k - 1]
            ELSE Append(F[k - 1],
                        [access_rule_id |-> form[r].access_rule_id,
                         ip |-> ips[r][k],
                         error |-> results[r][k]])
    IN  F[n]

\* C14 as stated: every call that fails, by a network error or by a non-2xx
\* status, leaves exactly one failure entry with the access-rule id, the IP
\* and the error, and a call that succeeds leaves none.
C14_EveryFailureLogged ==
    \A r \in Reqs : log[r] = FailuresOf(r, Len(results[r]))

\* C15: every admitted task finishes, given that its calls return; a task
\* never issues more calls than its list has elements, a finished one has
\* issued exactly one per element, in order (none for an empty list), and a
\* task leaves its loop only by finishing at the end of the list, giving
\* the permit back.
C15_ExactlyOncePerElement ==
    \A r \in Reqs :
        /\ Len(sent[r]) <= Len(ips[r])
        /\ Len(results[r]) = idx[r]
        /\ job[r] = "completed" =>
              /\ sent[r] = ExpectedCalls(r)
              /\ Len(results[r]) = Len(ips[r])
              /\ ips[r] = <<>> => sent[r] = <<>>

C15_Step ==
    \A r \in Reqs :
        (Running(r) /\ ~Running(r)') =>
            /\ job'[r] = "completed"
            /\ idx[r] = Len(ips[r])
            /\ permits = 0 /\ permits' = 1

C15_AdmittedJobCompletes ==
    /\ []C15_ExactlyOncePerElement
    /\ [][C15_Step]_vars
    /\ \A r \in Reqs : Running(r) ~> (job[r] = "completed")

\* C15 witness: a task with an empty list and a task with two elements whose
\* first call failed have both finished.
C15_Witness ==
    \E r, q \in Reqs :
        /\ job[r] = "completed" /\ Started(r) /\ ips[r] = <<>> /\ sent[r] = <<>>
        /\ job[q] = "completed" /\ Len(sent[q]) = 2
        /\ results[q][1] = "neterr"

\* C16 as stated: a request is answered 409, and a task's try_lock fails,
\* only while some import task is Running.
C16_Step ==
    \A r \in Reqs :
        /\ (resp[r].status # 409 /\ resp'[r].status = 409) =>
              \E q \in Reqs : Running(q)
        /\ (job[r] = "pending" /\ job'[r] = "rejected") =>
              \E q \in Reqs : Running(q)

C16_BusyOnlyWhileRunning == [][C16_Step]_vars

\* C17: the permit held by a task comes back only through that task's own
\* step, taken after the last element of its list has returned; a request
\* answered 409 and a task that finds the lock taken change neither the
\* holder, nor any loop position, nor the calls issued or outstanding.
C17_Step ==
    /\ \A r \in Reqs :
          (<<"task", r>> \in Holders /\ <<"task", r>> \notin Holders') =>
              /\ job[r] = "running" /\ job'[r] = "completed"
              /\ idx[r] = Len(ips[r])
              /\ Len(results[r]) = Len(ips[r])
              /\ sent[r] = ExpectedCalls(r)
              /\ Holders' = {}
              /\ permits' = 1
              /\ \A q \in Reqs \ {r} : job'[q] = job[q] /\ hpc'[q] = hpc[q]
    /\ \A r \in Reqs :
          (\/ resp[r].status # 409 /\ resp'[r].status = 409
           \/ job[r] = "pending" /\ job'[r] = "rejected") =>
              /\ Holders' = Holders
              /\ UNCHANGED <<permits, idx, sent, results, outstanding, log>>

C17_ReleaseOnlyByHolder == [][C17_Step]_vars

\* C17 witness: a task has given the permit back after a list with a failed
\* call, while one request was answered 409 and another task was rejected.
C17_Witness ==
    \E r, q, p \in Reqs :
        /\ job[r] = "completed" /\ Len(results[r]) = 2
        /\ results[r][2] = "neterr"
        /\ resp[q].status = 409
        /\ job[p] = "rejected"
        /\ permits = 1

\* C18: when every handler has answered and no task is waiting to try the
\* lock, a success body given to anyone means some task took the lock; and
\* given that tasks are scheduled and calls return, a success body is
\* followed by a task that has submitted its whole list.
C18_SomeJobAdmitted ==
    (/\ \E r \in Reqs : Started(r)
     /\ \A r \in Reqs : hpc[r] \in {"idle", "done"} /\ job[r] # "pending") =>
        \E q \in Reqs : Running(q) \/ job[q] = "completed"

C18_NotAllLost ==
    /\ []C18_SomeJobAdmitted
    /\ (\E r \in Reqs : Started(r)) ~>
          (\E q \in Reqs : job[q] = "completed" /\ sent[q] = ExpectedCalls(q))

\* C18 witness: all three requests got the success body, two tasks were
\* rejected and one has submitted its two-element list.
C18_Witness ==
    \E q \in Reqs :
        /\ \A r \in Reqs : Started(r)
        /\ job[q] = "completed" /\ Len(sent[q]) = 2
        /\ \A r \in Reqs \ {q} : job[r] = "rejected"

====
